---- MODULE Spec2Model ----
(***************************************************************************)
(* Expense tracker (src/src/App.js): the App component's state, its event  *)
(* handlers, the localStorage persistence effect and the derived chart     *)
(* data.                                                                   *)
(*                                                                         *)
(* JavaScript strings are sequences of one-character strings, so that      *)
(* JSON.stringify / JSON.parse and Number() are computed character by      *)
(* character.  Amounts are integers (inside the range where JavaScript     *)
(* number arithmetic is exact).                                            *)
(***************************************************************************)
EXTENDS Integers, Sequences, FiniteSets

VARIABLES
    pc,        \* "boot" (before App first renders), "running", "crashed"
    expenses,  \* useState at line 29: the collection
    title,     \* useState at line 34
    amount,    \* useState at line 35 (a string)
    category,  \* useState at line 36
    storage,   \* localStorage slot "expenses"
    now,       \* the host clock read by Date.now() / new Date()
    lastOp,    \* history: the last operation of the store that ran
    wrote      \* history: the persistence effect ran during the last event

vars == <<pc, expenses, title, amount, category, storage, now, lastOp, wrote>>

\* ------------------------------------------------------------------ bounds
MaxLen == 2         \* addExpense is explored while the collection is shorter
MaxClock == 2       \* the clock runs over 1..MaxClock
TicksPerDay == 2    \* clock ticks per calendar day (scale of the model clock)

\* ------------------------------------------------------------------ strings
Food == <<"F", "o", "o", "d">>
Travel == <<"T", "r", "a", "v", "e", "l">>
Shopping == <<"S", "h", "o", "p", "p", "i", "n", "g">>
Rent == <<"R", "e", "n", "t">>
Other == <<"O", "t", "h", "e", "r">>

categories == <<Food, Travel, Shopping, Rent, Other>>

DigitChars == <<"0", "1", "2", "3", "4", "5", "6", "7", "8", "9">>
IsDigit(c) == \E d \in 1..10 : DigitChars[d] = c
DigitVal(c) == (CHOOSE d \in 1..10 : DigitChars[d] = c) - 1

\* Decimal text of a number (Number.prototype.toString, used by JSON.stringify).
RECURSIVE NatToChars(_)
NatToChars(n) ==
    IF n < 10 THEN <<DigitChars[n + 1]>>
    ELSE NatToChars(n \div 10) \o <<DigitChars[(n % 10) + 1]>>

NumToChars(n) == IF n < 0 THEN <<"-">> \o NatToChars(-n) ELSE NatToChars(n)

\* Reads the run of digits of s starting at i: its value and the index after it.
RECURSIVE ScanDigits(_, _, _)
ScanDigits(s, i, acc) ==
    IF i <= Len(s) /\ IsDigit(s[i])
    THEN ScanDigits(s, i + 1, acc * 10 + DigitVal(s[i]))
    ELSE [val |-> acc, next |-> i]

\* <input type="number">: the value handed to onChange is the typed text when it
\* is a valid number, and the empty string otherwise (integers only here).
IsValidNumber(s) ==
    LET j == IF Len(s) > 0 /\ s[1] = "-" THEN 2 ELSE 1
    IN  /\ j <= Len(s)
        /\ \A k \in j..Len(s) : IsDigit(s[k])

NumberInputValue(raw) == IF IsValidNumber(raw) THEN raw ELSE <<>>

\* Number(amount) on the strings the amount field can hold; Number("") is 0.
Number(s) ==
    IF s = <<>> THEN 0
    ELSE IF s[1] = "-" THEN -(ScanDigits(s, 2, 0).val)
    ELSE ScanDigits(s, 1, 0).val

\* ------------------------------------------------------------------ JSON
\* JSON.stringify of a string: quoted, with " and \ escaped.
RECURSIVE EscapeChars(_)
EscapeChars(s) ==
    IF s = <<>> THEN <<>>
    ELSE (IF Head(s) \in {"\"", "\\"} THEN <<"\\", Head(s)>> ELSE <<Head(s)>>)
         \o EscapeChars(Tail(s))

QuoteString(s) == <<"\"">> \o EscapeChars(s) \o <<"\"">>

Key(name) == QuoteString(name) \o <<":">>

IdKey == Key(<<"i", "d">>)
TitleKey == Key(<<"t", "i", "t", "l", "e">>)
AmountKey == Key(<<"a", "m", "o", "u", "n", "t">>)
CategoryKey == Key(<<"c", "a", "t", "e", "g", "o", "r", "y">>)
DateKey == Key(<<"d", "a", "t", "e">>)

\* JSON.stringify of one expense record: its own properties in creation order.
StringifyExpense(e) ==
    <<"{">> \o IdKey \o NumToChars(e.id)
    \o <<",">> \o TitleKey \o QuoteString(e.title)
    \o <<",">> \o AmountKey \o NumToChars(e.amount)
    \o <<",">> \o CategoryKey \o QuoteString(e.category)
    \o <<",">> \o DateKey \o QuoteString(e.date)
    \o <<"}">>

RECURSIVE JoinExpenses(_)
JoinExpenses(exps) ==
    IF exps = <<>> THEN <<>>
    ELSE IF Len(exps) = 1 THEN StringifyExpense(exps[1])
    ELSE StringifyExpense(exps[1]) \o <<",">> \o JoinExpenses(Tail(exps))

\* JSON.stringify(expenses), line 42.
JSONstringify(exps) == <<"[">> \o JoinExpenses(exps) \o <<"]">>

\* JSON.parse, as a recursive-descent parser of the texts the slot holds in this
\* model: an array of expense objects, the literal null, or a malformed text.
\* A parser result is [ok, val, next]: next is the index after what was read,
\* and ok = FALSE stands for the SyntaxError JSON.parse throws.
ParseFail == [ok |-> FALSE, val |-> <<>>, next |-> 0]

\* The index after literal lit read at s[i], or 0 when s does not continue with it.
Expect(s, i, lit) ==
    IF i >= 1 /\ i + Len(lit) - 1 <= Len(s) /\ SubSeq(s, i, i + Len(lit) - 1) = lit
    THEN i + Len(lit)
    ELSE 0

\* A number read at s[i]: an optional minus sign and a run of digits.
SignedNumber(neg, j, r) ==
    IF r.next = j THEN ParseFail
    ELSE [ok |-> TRUE, val |-> IF neg THEN -r.val ELSE r.val, next |-> r.next]

ParseNumberAfterSign(s, neg, j) == SignedNumber(neg, j, ScanDigits(s, j, 0))

ParseNumber(s, i) ==
    IF i < 1 THEN ParseFail
    ELSE IF i <= Len(s) /\ s[i] = "-" THEN ParseNumberAfterSign(s, TRUE, i + 1)
    ELSE ParseNumberAfterSign(s, FALSE, i)

\* A string read after its opening quote, undoing the escapes of " and \.
RECURSIVE ScanString(_, _, _)
ScanString(s, i, acc) ==
    IF i > Len(s) THEN ParseFail
    ELSE IF s[i] = "\"" THEN [ok |-> TRUE, val |-> acc, next |-> i + 1]
    ELSE IF s[i] = "\\"
         THEN IF i + 1 <= Len(s) /\ s[i + 1] \in {"\"", "\\"}
              THEN ScanString(s, i + 2, Append(acc, s[i + 1]))
              ELSE ParseFail
    ELSE ScanString(s, i + 1, Append(acc, s[i]))

ParseString(s, i) ==
    IF i >= 1 /\ i <= Len(s) /\ s[i] = "\"" THEN ScanString(s, i + 1, <<>>) ELSE ParseFail

\* The object being read: st.val holds the members read so far.
EmptyObject == [id |-> 0, title |-> <<>>, amount |-> 0, category |-> <<>>, date |-> <<>>]

WithMember(st, field, r) ==
    IF r.ok
    THEN [ok |-> TRUE, val |-> [st.val EXCEPT ![field] = r.val], next |-> r.next]
    ELSE ParseFail

\* One member "key":value read where st stops, after the separator sep.
NumberMember(s, st, sep, key, field) ==
    IF st.ok THEN WithMember(st, field, ParseNumber(s, Expect(s, st.next, sep \o key)))
    ELSE ParseFail

StringMember(s, st, sep, key, field) ==
    IF st.ok THEN WithMember(st, field, ParseString(s, Expect(s, st.next, sep \o key)))
    ELSE ParseFail

CloseObject(s, st) ==
    IF st.ok /\ Expect(s, st.next, <<"}">>) # 0
    THEN [ok |-> TRUE, val |-> st.val, next |-> st.next + 1]
    ELSE ParseFail

ParseObject(s, i) ==
    CloseObject(s,
      StringMember(s,
        StringMember(s,
          NumberMember(s,
            StringMember(s,
              NumberMember(s, [ok |-> TRUE, val |-> EmptyObject, next |-> i],
                           <<"{">>, IdKey, "id"),
              <<",">>, TitleKey, "title"),
            <<",">>, AmountKey, "amount"),
          <<",">>, CategoryKey, "category"),
        <<",">>, DateKey, "date"))

\* The elements of a non-empty array from s[i] on, up to the closing bracket
\* that must end the text.
RECURSIVE ParseElements(_, _, _)
RECURSIVE ElementsAfter(_, _, _)
ElementsAfter(s, o, acc) ==
    IF ~o.ok THEN ParseFail
    ELSE IF Expect(s, o.next, <<"]">>) = Len(s) + 1
         THEN [ok |-> TRUE, val |-> Append(acc, o.val), next |-> Len(s) + 1]
    ELSE IF Expect(s, o.next, <<",">>) # 0
         THEN ParseElements(s, o.next + 1, Append(acc, o.val))
    ELSE ParseFail

ParseElements(s, i, acc) == ElementsAfter(s, ParseObject(s, i), acc)

NullText == <<"n", "u", "l", "l">>

ArrayValue(r) == [ok |-> r.ok, isArray |-> r.ok, val |-> r.val]

\* JSON.parse(saved), line 31: [ok, isArray, val]; ~ok is a thrown SyntaxError.
JSONparse(s) ==
    IF s = NullText THEN [ok |-> TRUE, isArray |-> FALSE, val |-> <<>>]
    ELSE IF s = <<"[", "]">> THEN [ok |-> TRUE, isArray |-> TRUE, val |-> <<>>]
    ELSE IF Expect(s, 1, <<"[">>) = 0 THEN [ok |-> FALSE, isArray |-> FALSE, val |-> <<>>]
    ELSE ArrayValue(ParseElements(s, 2, <<>>))

\* ------------------------------------------------------------------ program
\* localStorage slot "expenses": absent, or holding a text.
Absent == [present |-> FALSE, text |-> <<>>]
Slot(text) == [present |-> TRUE, text |-> text]

\* What the slot can hold when the page is opened: nothing, the empty string,
\* a malformed text, the literal null, or the array an earlier session saved.
InitialSlots ==
    {Absent, Slot(<<>>), Slot(<<"{">>), Slot(NullText), Slot(JSONstringify(<<>>))}

\* Options of the category selector the user picks (indices into categories).
CategoryChoices == {1, Len(categories)}

\* Texts the user can type into the title and the amount fields.
TitleInputs == {<<>>, <<"\\", "\"">>}
AmountInputs == {<<>>, <<"x">>, <<"1", "0">>, <<"-", "1">>}

\* new Date().toLocaleDateString(), line 53: the calendar day of the clock value.
toLocaleDateString(t) == NumToChars(t \div TicksPerDay)

\* Mutant of Initializer: useState([]), the slot is never read.
InitializerIgnoresSlot(slot) == [ok |-> TRUE, isArray |-> TRUE, val |-> <<>>]

\* useState initializer, lines 29-32.
Initializer(slot) ==
    IF ~slot.present \/ slot.text = <<>>
    THEN [ok |-> TRUE, isArray |-> TRUE, val |-> <<>>]
    ELSE JSONparse(slot.text)

\* Mutant of SaveToLocalStorage: the effect does not run again, the slot stays.
SaveSkipped(exps) == storage

\* useEffect, lines 41-43: the slot after the effect ran for collection exps.
SaveToLocalStorage(exps) == Slot(JSONstringify(exps))

\* Mutant of AddAccepts: if (!title) return, the amount is not looked at.
AddAcceptsTitleOnly(t, a) == t # <<>>

\* addExpense's early return, line 47: TRUE when the call goes on to add.
AddAccepts(t, a) == ~(t = <<>> \/ a = <<>>)

\* newExpense, lines 48-54.
newExpense(t, a, c, clock) ==
    [id |-> clock, title |-> t, amount |-> Number(a), category |-> c,
     date |-> toLocaleDateString(clock)]

\* Mutant of Spread: setExpenses([newExpense]), the spread is forgotten.
SpreadForgotten(exps, e) == <<e>>

\* [...expenses, newExpense], line 55.
Spread(exps, e) == Append(exps, e)

\* expenses.filter((e) => e.id !== id), line 62.
FilterOut(exps, id) == SelectSeq(exps, LAMBDA e : e.id # id)

\* Mutant of ConfirmAccepted: the answer of the dialog is not looked at.
ConfirmIgnored(answer) == TRUE

\* if (window.confirm(...)), line 67: answer is what the user chose in the dialog.
ConfirmAccepted(answer) == answer

\* reduce((sum, e) => sum + e.amount, 0), lines 73 and 94.
RECURSIVE ReduceSum(_, _)
ReduceSum(exps, sum) ==
    IF exps = <<>> THEN sum ELSE ReduceSum(Tail(exps), sum + Head(exps).amount)

\* total, line 73.
total(exps) == ReduceSum(exps, 0)

\* lineData, lines 76-86: labels and data of the trend series.
lineData(exps) ==
    [labels |-> [k \in 1..Len(exps) |-> exps[k].date],
     data |-> [k \in 1..Len(exps) |-> exps[k].amount]]

\* Mutant of pieData: the last category is left without its records.
pieDataWithoutLast(exps) ==
    [k \in 1..Len(categories) |->
        IF k = Len(categories) THEN 0
        ELSE ReduceSum(SelectSeq(exps, LAMBDA e : e.category = categories[k]), 0)]

\* pieData.datasets[0].data, lines 91-95: one value per category, in order.
pieData(exps) ==
    [k \in 1..Len(categories) |->
        ReduceSum(SelectSeq(exps, LAMBDA e : e.category = categories[k]), 0)]

\* ------------------------------------------------------------------ actions
Init ==
    /\ pc = "boot"
    /\ expenses = <<>>
    /\ title = <<>>
    /\ amount = <<>>
    /\ category = Food
    /\ storage \in InitialSlots
    /\ now = 1
    /\ lastOp = "none"
    /\ wrote = FALSE

\* App's first render and first effect run, from the slot as it stands.  A
\* SyntaxError thrown by JSON.parse (line 31), or a TypeError thrown by
\* expenses.reduce on a value that is no array (line 73), ends the render.
Render(op, r) ==
    /\ lastOp' = op
    /\ title' = <<>>
    /\ amount' = <<>>
    /\ category' = Food
    /\ UNCHANGED now
    /\ IF r.ok /\ r.isArray
       THEN /\ pc' = "running"
            /\ expenses' = r.val
            /\ storage' = SaveToLocalStorage(r.val)
            /\ wrote' = TRUE
       ELSE /\ pc' = "crashed"
            /\ expenses' = <<>>
            /\ wrote' = FALSE
            /\ UNCHANGED storage

Mount == pc = "boot" /\ Render("mount", Initializer(storage))

\* The page is reloaded: a fresh App instance starts from the slot.
Reload == pc \in {"running", "crashed"} /\ Render("reload", Initializer(storage))

\* onChange handlers, lines 124-126.
setTitle(v) ==
    /\ pc = "running"
    /\ title' = v
    /\ lastOp' = "input"
    /\ wrote' = FALSE
    /\ UNCHANGED <<pc, expenses, amount, category, storage, now>>

setAmount(raw) ==
    /\ pc = "running"
    /\ amount' = NumberInputValue(raw)
    /\ lastOp' = "input"
    /\ wrote' = FALSE
    /\ UNCHANGED <<pc, expenses, title, category, storage, now>>

setCategory(k) ==
    /\ pc = "running"
    /\ category' = categories[k]
    /\ lastOp' = "input"
    /\ wrote' = FALSE
    /\ UNCHANGED <<pc, expenses, title, amount, storage, now>>

\* addExpense, lines 46-58, with the re-render and the effect that follow it.
addExpense ==
    /\ pc = "running"
    /\ Len(expenses) < MaxLen
    /\ lastOp' = "addExpense"
    /\ IF AddAccepts(title, amount)
       THEN LET next == Spread(expenses, newExpense(title, amount, category, now))
            IN  /\ expenses' = next
                /\ title' = <<>>
                /\ amount' = <<>>
                /\ storage' = SaveToLocalStorage(next)
                /\ wrote' = TRUE
                /\ UNCHANGED <<pc, category, now>>
       ELSE /\ wrote' = FALSE
            /\ UNCHANGED <<pc, expenses, title, amount, category, storage, now>>

\* removeExpense, lines 61-63, with the re-render and the effect that follow it.
\* The rows pass the ids of records in the collection; the handler takes any id.
removeExpense(id) ==
    /\ pc = "running"
    /\ LET next == FilterOut(expenses, id)
       IN  /\ expenses' = next
           /\ storage' = SaveToLocalStorage(next)
    /\ wrote' = TRUE
    /\ lastOp' = "removeExpense"
    /\ UNCHANGED <<pc, title, amount, category, now>>

\* clearAll, lines 66-70, with the re-render and the effect that follow a
\* setExpenses([]); the button is rendered while the collection is not empty
\* (line 160).  answer is what the user chose in the window.confirm dialog.
clearAll(answer) ==
    /\ pc = "running"
    /\ Len(expenses) > 0
    /\ lastOp' = IF answer THEN "clearAll:ok" ELSE "clearAll:cancel"
    /\ IF ConfirmAccepted(answer)
       THEN /\ expenses' = <<>>
            /\ storage' = SaveToLocalStorage(<<>>)
            /\ wrote' = TRUE
       ELSE /\ wrote' = FALSE
            /\ UNCHANGED <<expenses, storage>>
    /\ UNCHANGED <<pc, title, amount, category, now>>

\* The host clock advances by one unit of Date.now().
Tick ==
    /\ now < MaxClock
    /\ now' = now + 1
    /\ lastOp' = "tick"
    /\ wrote' = FALSE
    /\ UNCHANGED <<pc, expenses, title, amount, category, storage>>

Next ==
    \/ Mount
    \/ Reload
    \/ \E v \in TitleInputs : setTitle(v)
    \/ \E raw \in AmountInputs : setAmount(raw)
    \/ \E k \in CategoryChoices : setCategory(k)
    \/ addExpense
    \/ \E id \in 1..MaxClock : removeExpense(id)
    \/ \E answer \in BOOLEAN : clearAll(answer)
    \/ Tick

Spec == Init /\ [][Next]_vars

\* ------------------------------------------------------------------ claims
RECURSIVE SumSeq(_)
SumSeq(q) == IF q = <<>> THEN 0 ELSE Head(q) + SumSeq(Tail(q))

RemoveAt(q, i) == SubSeq(q, 1, i - 1) \o SubSeq(q, i + 1, Len(q))

HasId(exps, id) == \E i \in 1..Len(exps) : exps[i].id = id

\* C1: every addExpense call made with a non-empty title and a non-empty numeric
\* amount makes the collection one record longer and raises the total by the
\* amount added; the total of the empty collection is 0, so after any sequence
\* of such calls from the empty collection the total is the sum of the amounts.
C1_ValidAddGrowsByOne ==
    [][(lastOp' = "addExpense" /\ title # <<>> /\ IsValidNumber(amount))
        => /\ Len(expenses') = Len(expenses) + 1
           /\ total(expenses') = total(expenses) + Number(amount)
           /\ total(<<>>) = 0]_vars

C1_Witness ==
    /\ lastOp = "addExpense"
    /\ wrote
    /\ Len(expenses) = 2
    /\ total(expenses) = 9

\* C2: removeExpense(id) with an id in the collection makes it exactly one
\* record shorter, removing one record with that id and leaving the others in
\* place; with an id not in the collection it leaves the collection unchanged.
C2_RemoveExactlyOne ==
    [][\A id \in 1..MaxClock : removeExpense(id) =>
        IF HasId(expenses, id)
        THEN \E i \in 1..Len(expenses) :
                expenses[i].id = id /\ expenses' = RemoveAt(expenses, i)
        ELSE expenses' = expenses]_vars

\* C3: no two records of the collection have the same id.
C3_UniqueIds ==
    \A i, j \in 1..Len(expenses) : i # j => expenses[i].id # expenses[j].id

\* C4: when the slot is absent or holds a text that cannot be parsed, the first
\* render ends with the application running on an empty collection.
C4_LoadNeverFails ==
    [][(lastOp' = "mount" /\ (~storage.present \/ ~JSONparse(storage.text).ok))
        => (pc' = "running" /\ expenses' = <<>>)]_vars

\* C5: an addExpense call made while the title field is empty, or the amount
\* field is empty or not a number, leaves the collection the same sequence.
C5_InvalidAddRejected ==
    [][(lastOp' = "addExpense" /\ (title = <<>> \/ ~IsValidNumber(amount)))
        => expenses' = expenses]_vars

C5_Witness ==
    /\ lastOp = "addExpense"
    /\ ~wrote
    /\ title # <<>>
    /\ amount = <<>>
    /\ Len(expenses) = 1

\* C6: clearAll with the confirmation accepted leaves the collection empty;
\* with the confirmation declined it leaves the collection unchanged and the
\* persistence effect does not run.
C6_ClearAllConfirmed ==
    [][/\ lastOp' = "clearAll:ok" => expenses' = <<>>
       /\ lastOp' = "clearAll:cancel" =>
            (expenses' = expenses /\ storage' = storage /\ ~wrote')]_vars

C6_Witness ==
    /\ lastOp = "clearAll:cancel"
    /\ ~wrote
    /\ Len(expenses) = 2

C8_RoundTrip ==
    [][(lastOp' = "reload" /\ pc = "running")
        => (pc' = "running" /\ expenses' = expenses)]_vars

C8_Witness ==
    /\ lastOp = "reload"
    /\ pc = "running"
    /\ Len(expenses) = 2
    /\ expenses[1].amount = -1
    /\ expenses[2].category = Other

\* C9: at every event boundary of the running application the slot holds the
\* serialization of the whole in-memory collection.
C9_SlotHoldsCollection ==
    pc = "running" =>
        /\ storage.present
        /\ storage.text = JSONstringify(expenses)
        /\ JSONparse(storage.text).val = expenses

C9_Witness ==
    /\ lastOp = "removeExpense"
    /\ Len(expenses) = 1
    /\ storage.text = JSONstringify(expenses)

\* C10: every record has a non-empty title, an amount that is positive or zero
\* and a category among the five.
C10_RecordsWellFormed ==
    \A i \in 1..Len(expenses) :
        /\ expenses[i].title # <<>>
        /\ expenses[i].amount >= 0
        /\ \E k \in 1..Len(categories) : expenses[i].category = categories[k]

====
